---- MODULE Spec2Model ----
(***************************************************************************)
(* A model of py-opw-kinematics (src/src/lib.rs, src/src/kinematic_model.rs)*)
(*                                                                         *)
(* Numbers.  f64 values are modelled in fixed point:                       *)
(*   - angles in degrees are integers counting centidegrees (0.01 deg),    *)
(*   - angles in radians are integers counting 1e-4 rad,                   *)
(*   - lengths are integers counting decimetres,                           *)
(*   - quaternion components are integers; the rotations used are the      *)
(*     axis-aligned unit quaternions (+-1, +-i, +-j, +-k), which are       *)
(*     closed under the Hamilton product.                                  *)
(* Option<T> is a sequence: << >> is None and <<v>> is Some(v).            *)
(***************************************************************************)
EXTENDS Integers, Sequences, FiniteSets, TLC

VARIABLES robot, pc, op, args, ret

vars == <<robot, pc, op, args, ret>>

None == << >>

\* PyResult
Ok(v) == [tag |-> "Ok", value |-> v]

Err(e) == [tag |-> "Err", error |-> e]

is_err(r) == r.tag = "Err"

Some(v) == <<v>>

is_none(o) == Len(o) = 0

is_some(o) == Len(o) = 1

Abs(x) == IF x < 0 THEN -x ELSE x

\* n/d rounded to the nearest integer (d > 0), as an f64 operation rounds
Round(n, d) == (2 * n + d) \div (2 * d)

(***************************************************************************)
(* f64::to_radians and f64::to_degrees: x * pi/180 and x * 180/pi.         *)
(* centidegrees -> 1e-4 rad is a factor pi/1.8 = 1309/750 (to 7 digits).   *)
(***************************************************************************)
to_radians(x) == Round(x * 1309, 750)

to_degrees(x) == Round(x * 750, 1309)

PI == to_radians(18000)

TwoPi == 2 * PI

JointIdx == 1..6

(***************************************************************************)
(* nalgebra: Quaternion, UnitQuaternion, Isometry3                         *)
(***************************************************************************)
\* Quaternion::new(w, i, j, k): the scalar part comes first
QuaternionNew(w, i, j, k) == [w |-> w, i |-> i, j |-> j, k |-> k]

\* Quaternion.coords: the storage order is (x, y, z, w), 1-based here
Coords(q) == <<q.i, q.j, q.k, q.w>>

\* UnitQuaternion::from_quaternion: divides by the norm (axis-aligned input)
UnitFromQuaternion(q) ==
    LET n == Abs(q.w) + Abs(q.i) + Abs(q.j) + Abs(q.k)
    IN  [w |-> q.w \div n, i |-> q.i \div n, j |-> q.j \div n, k |-> q.k \div n]

QuatMul(a, b) ==
    [w |-> a.w * b.w - a.i * b.i - a.j * b.j - a.k * b.k,
     i |-> a.w * b.i + a.i * b.w + a.j * b.k - a.k * b.j,
     j |-> a.w * b.j - a.i * b.k + a.j * b.w + a.k * b.i,
     k |-> a.w * b.k + a.i * b.j - a.j * b.i + a.k * b.w]

QuatConj(q) == [w |-> q.w, i |-> -q.i, j |-> -q.j, k |-> -q.k]

QuatNeg(q) == [w |-> -q.w, i |-> -q.i, j |-> -q.j, k |-> -q.k]

\* the rotation q applied to the vector v: q v q*
Rotate(q, v) ==
    LET p == QuatMul(QuatMul(q, QuaternionNew(0, v[1], v[2], v[3])), QuatConj(q))
    IN  <<p.i, p.j, p.k>>

VecAdd(u, v) == <<u[1] + v[1], u[2] + v[2], u[3] + v[3]>>

VecNeg(v) == <<-v[1], -v[2], -v[3]>>

\* Isometry3::from_parts(Translation3::from(t), r)
IsometryFromParts(t, r) == [translation |-> t, rotation |-> r]

\* Isometry3 product a * b
IsoMul(a, b) ==
    [translation |-> VecAdd(a.translation, Rotate(a.rotation, b.translation)),
     rotation    |-> QuatMul(a.rotation, b.rotation)]

\* Isometry3::inverse
IsoInverse(a) ==
    [translation |-> VecNeg(Rotate(QuatConj(a.rotation), a.translation)),
     rotation    |-> QuatConj(a.rotation)]

\* two poses are the same placement: q and -q are the same rotation
SamePose(p, q) ==
    /\ p.translation = q.translation
    /\ \/ p.rotation = q.rotation
       \/ p.rotation = QuatNeg(q.rotation)

(***************************************************************************)
(* The solver (rs_opw_kinematics), a collaborator.  An arm is the list of  *)
(* its kinematic branches in the order in which the solver enumerates      *)
(* them: each branch is a joint vector (degrees) and the flange pose it    *)
(* reaches.  Several branches reach the same pose.                         *)
(***************************************************************************)
PoseA == IsometryFromParts(<<2, -3, 9>>, QuaternionNew(0, 0, 1, 0))

PoseB == IsometryFromParts(<<0, 0, 12>>, QuaternionNew(1, 0, 0, 0))

PoseD == IsometryFromParts(<<5, 1, 4>>, QuaternionNew(0, 0, 0, 1))

\* where the arm is for joints on none of the listed branches
PoseElsewhere == IsometryFromParts(<<0, 0, 0>>, QuaternionNew(1, 0, 0, 0))

\* the branches reaching PoseA; the fourth has J5 = 0, a wrist singularity
BranchesA ==
    << <<-10310, -8503, 1906, -7019, -3587, -17499>>,
       <<-10310, -8503, 1906, 10981, 3587, 501>>,
       <<7690, -3904, 3298, 3353, -9350, -5870>>,
       <<7690, 7306, 16545, -6128, 0, -619>> >>

\* the branches reaching PoseB: both singular (J5 = 0, J5 = 180)
BranchesB ==
    << <<0, 0, 0, 0, 0, 0>>,
       <<0, 0, 0, 9000, 18000, -9000>> >>

\* the branch reaching PoseD
BranchesD ==
    << <<5000, 2000, -12000, 17000, 6000, 9000>> >>

Permutations4 ==
    {p \in [1..4 -> 1..4] : \A a, b \in 1..4 : a # b => p[a] # p[b]}

\* the geometry with every length 0, which KinematicModel::new takes by
\* default: an arm that reaches no pose
ZeroGeometry == [n \in 1..4 |-> 0]

\* a geometry the solver has branches for
ValidGeometry(kinematic_model) == \A n \in 1..4 : kinematic_model[n] # 0

\* a KinematicModel stands for its geometry by the order of the branches
KinematicModels == Permutations4 \cup {ZeroGeometry}

JointsToRadians(j) == [n \in JointIdx |-> to_radians(j[n])]

BranchList(poseOf, branches) ==
    [n \in 1..Len(branches) |->
        [joints |-> JointsToRadians(branches[n]), pose |-> poseOf]]

\* KinematicModel::to_opw_kinematics: OPWKinematics::new(Parameters {..})
to_opw_kinematics(kinematic_model) ==
    IF ValidGeometry(kinematic_model)
    THEN BranchList(PoseA, [n \in 1..4 |-> BranchesA[kinematic_model[n]]])
            \o BranchList(PoseB, BranchesB)
            \o BranchList(PoseD, BranchesD)
    ELSE << >>

\* distance between two angles modulo a full turn
AngleDist(a, b) ==
    LET d == (a - b) % TwoPi
    IN  IF d < TwoPi - d THEN d ELSE TwoPi - d

SameJoints(q, e) == \A n \in JointIdx : AngleDist(q[n], e[n]) <= 1

\* OPWKinematics::forward
opw_forward(opw, qs) ==
    IF \E n \in 1..Len(opw) : SameJoints(qs, opw[n].joints)
    THEN opw[CHOOSE n \in 1..Len(opw) : SameJoints(qs, opw[n].joints)].pose
    ELSE PoseElsewhere

\* the angle a shifted by whole turns to lie nearest to ref
normalize_near(a, ref) == a + TwoPi * Round(ref - a, TwoPi)

\* CONSTRAINT_CENTERED: the seed that centres every joint
CONSTRAINT_CENTERED == <<0, 0, 0, 0, 0, 0>>

RECURSIVE MapNear(_, _)
MapNear(entries, prev) ==
    IF entries = << >> THEN << >>
    ELSE <<[n \in JointIdx |-> normalize_near(Head(entries).joints[n], prev[n])]>>
            \o MapNear(Tail(entries), prev)

\* OPWKinematics::inverse_continuing: every branch reaching the pose, in the
\* solver's order, each joint on the period nearest to the seed
opw_inverse_continuing(opw, pose, prev) ==
    MapNear(SelectSeq(opw, LAMBDA e : SamePose(e.pose, pose)), prev)

\* OPWKinematics::kinematic_singularity: J5 close to a multiple of pi
opw_kinematic_singularity(opw, qs) ==
    LET r == qs[5] % PI
    IN  IF r < 2 \/ PI - r < 2 THEN Some("A") ELSE None

(***************************************************************************)
(* rs_opw_kinematics::tool: Base wraps the solver, Tool wraps Base         *)
(***************************************************************************)
Base_forward(b, qs) == IsoMul(b.base, opw_forward(b.robot, qs))

Base_inverse_continuing(b, tcp, prev) ==
    opw_inverse_continuing(b.robot, IsoMul(IsoInverse(b.base), tcp), prev)

Base_kinematic_singularity(b, qs) == opw_kinematic_singularity(b.robot, qs)

Tool_forward(t, qs) == IsoMul(Base_forward(t.robot, qs), t.tool)

Tool_inverse_continuing(t, tcp, prev) ==
    Base_inverse_continuing(t.robot, IsoMul(tcp, IsoInverse(t.tool)), prev)

Tool_kinematic_singularity(t, qs) == Base_kinematic_singularity(t.robot, qs)

(***************************************************************************)
(* lib.rs: BaseConfig, ToolConfig, Robot                                   *)
(***************************************************************************)
BaseConfigNew(translation, rotation) ==
    [translation |-> translation, rotation |-> rotation]

ToolConfigNew(translation, rotation) ==
    [translation |-> translation, rotation |-> rotation]

\* the isometry Robot::new builds from a config: rotation is (w, x, y, z)
ConfigIsometry(config) ==
    IsometryFromParts(
        config.translation,
        UnitFromQuaternion(QuaternionNew(config.rotation[1], config.rotation[2],
                                         config.rotation[3], config.rotation[4])))

\* Robot::new
RobotNew(kinematic_model, base_config, tool_config) ==
    LET opw == to_opw_kinematics(kinematic_model)
        base == ConfigIsometry(base_config)
        tool == ConfigIsometry(tool_config)
        robot_with_base == [robot |-> opw, base |-> base]
        robot_on_base_with_tool == [robot |-> robot_with_base, tool |-> tool]
        robot_instance == [base_config |-> base_config,
                           tool_config |-> tool_config,
                           _tool |-> robot_on_base_with_tool,
                           _kinematic_model |-> kinematic_model]
    IN  Ok(robot_instance)

\* mutant of ForwardQuat: the storage order handed on as it is, (x, y, z, w)
ForwardQuat_storage_order(rotation) == Coords(rotation)

\* the quaternion Robot::forward exports: coords[3], coords[0], coords[1], coords[2]
ForwardQuat(rotation) ==
    <<Coords(rotation)[4], Coords(rotation)[1], Coords(rotation)[2], Coords(rotation)[3]>>

\* Robot::forward
forward(self, joints) ==
    LET qs == JointsToRadians(joints)
        pose == Tool_forward(self._tool, qs)
    IN  <<pose.translation, ForwardQuat(pose.rotation)>>

\* mutant of convert_to_degrees: the solver's radians handed on unconverted
convert_to_degrees_skipped(joints) == joints

\* Robot::convert_to_degrees
convert_to_degrees(joints) == [n \in JointIdx |-> to_degrees(joints[n])]

\* `as i32`: a float to integer cast saturates
AsI32(x) ==
    IF x > 2147483647 THEN 2147483647
    ELSE IF x < -2147483647 - 1 THEN -2147483647 - 1 ELSE x

\* mutant of quadrant: truncation toward zero in place of floor
quadrant_truncating(joint) ==
    IF joint < 0 THEN -((-joint) \div 9000) ELSE joint \div 9000

\* quadrant: (joint / 90.0).floor() as i32
quadrant(joint) == AsI32(joint \div 9000)

\* Robot::axis_configuration
axis_configuration(joints) ==
    LET cfx == (IF joints[5] < 0 THEN 1 ELSE 0)
             + (IF joints[3] < -9000 THEN 2 ELSE 0)
             + (IF joints[2] < 0 THEN 4 ELSE 0)
        cf1 == quadrant(joints[1])
        cf4 == quadrant(joints[4])
        cf6 == quadrant(joints[6])
    IN  <<cf1, cf4, cf6, cfx>>

\* the quaternion Robot::inverse reads from its pose: Quaternion::new(pose.1[0..3])
InverseQuat(q) == UnitFromQuaternion(QuaternionNew(q[1], q[2], q[3], q[4]))

\* the seed Robot::inverse hands to the solver
InverseSeed(current_joints) ==
    IF is_some(current_joints)
    THEN JointsToRadians(current_joints[1])
    ELSE CONSTRAINT_CENTERED

\* the solver's candidates for a call of Robot::inverse (radians)
InverseCandidates(self, pose, current_joints) ==
    LET iso_pose == IsometryFromParts(pose[1], InverseQuat(pose[2]))
    IN  Tool_inverse_continuing(self._tool, iso_pose, InverseSeed(current_joints))

\* mutant of KeepCandidate: the filter inverted (is_some for is_none)
KeepCandidate_inverted(self, x) == is_some(Tool_kinematic_singularity(self._tool, x))

\* a candidate passes the filter when the solver returns no marker for it
KeepCandidate(self, x) == is_none(Tool_kinematic_singularity(self._tool, x))

RECURSIVE FilterSingular_reversed(_, _)
\* mutant of FilterSingular: the survivors collected in reverse order
FilterSingular_reversed(self, solutions) ==
    IF solutions = << >> THEN << >>
    ELSE FilterSingular_reversed(self, Tail(solutions))
         \o (IF KeepCandidate(self, Head(solutions))
             THEN <<convert_to_degrees(Head(solutions))>>
             ELSE << >>)

RECURSIVE FilterSingular(_, _)
\* .zip(singularities).filter(|(_, s)| s.is_none()).map(convert_to_degrees)
FilterSingular(self, solutions) ==
    IF solutions = << >> THEN << >>
    ELSE (IF KeepCandidate(self, Head(solutions))
          THEN <<convert_to_degrees(Head(solutions))>>
          ELSE << >>)
         \o FilterSingular(self, Tail(solutions))

\* mutant of Score: all four fields compared
Score_all_fields(sol, axis_config) == axis_configuration(sol) = axis_config

\* the score of a solution: only cfx is compared
Score(sol, axis_config) == axis_configuration(sol)[4] = axis_config[4]

\* the sort key of a scored solution: !score, and false < true
SortKey(scored) == IF scored[1] THEN 0 ELSE 1

RECURSIVE InsertByKey_unstable(_, _)
\* mutant of InsertByKey: x placed before the elements of equal key (not stable)
InsertByKey_unstable(sorted, x) ==
    IF sorted = << >> THEN <<x>>
    ELSE IF SortKey(Head(sorted)) < SortKey(x)
         THEN <<Head(sorted)>> \o InsertByKey_unstable(Tail(sorted), x)
         ELSE <<x>> \o sorted

RECURSIVE InsertByKey(_, _)
\* x placed behind every element whose key is not greater than its own
InsertByKey(sorted, x) ==
    IF sorted = << >> THEN <<x>>
    ELSE IF SortKey(Head(sorted)) <= SortKey(x)
         THEN <<Head(sorted)>> \o InsertByKey(Tail(sorted), x)
         ELSE <<x>> \o sorted

RECURSIVE sort_by_key(_)
\* slice::sort_by_key(|(score, _)| !*score): a stable sort
sort_by_key(s) ==
    IF s = << >> THEN << >>
    ELSE InsertByKey(sort_by_key(SubSeq(s, 1, Len(s) - 1)), s[Len(s)])

\* Robot::inverse
inverse(self, pose, current_joints, axis_config) ==
    LET solutions == FilterSingular(self, InverseCandidates(self, pose, current_joints))
    IN  IF is_some(axis_config)
        THEN LET solutions_with_score ==
                    [n \in 1..Len(solutions) |->
                        <<Score(solutions[n], axis_config[1]), solutions[n]>>]
                 sorted == sort_by_key(solutions_with_score)
             IN  [n \in 1..Len(sorted) |-> sorted[n][2]]
        ELSE solutions

(***************************************************************************)
(* polars: a DataFrame is its height and its named columns; a column is a  *)
(* data type and one nullable cell per row.                                *)
(***************************************************************************)
SeriesNew(values) == [dtype |-> "f64", values |-> values]

RECURSIVE Text(_)
\* a text stands for itself by the number its bytes spell in base 256
Text(bytes) ==
    IF Len(bytes) = 0 THEN 0
    ELSE 256 * Text(SubSeq(bytes, 1, Len(bytes) - 1)) + bytes[Len(bytes)]

\* what a string cell parses to as a float, if it does: "0" and "1" here
ParseF64(s) ==
    CASE s = Text(<<48>>) -> Some(0)
      [] s = Text(<<49>>) -> Some(1)
      [] OTHER -> None

\* Column::cast(&DataType::Float64): numbers are kept; a string cell that is
\* no number becomes null (the cast is not strict); a nested type fails
CastF64(column) ==
    CASE column.dtype = "f64" -> Ok(column)
      [] column.dtype = "str" ->
            Ok(SeriesNew([n \in 1..Len(column.values) |->
                    IF is_some(column.values[n])
                    THEN ParseF64(column.values[n][1])
                    ELSE None]))
      [] OTHER -> Err("cast")

\* mutant of extract_column_f64: a column that is not there read as all null
extract_column_f64_lenient(df, column_name) ==
    IF column_name \notin DOMAIN df.columns
    THEN Ok([n \in 1..df.height |-> None])
    ELSE Ok(CastF64(df.columns[column_name]).value.values)

\* extract_column_f64
extract_column_f64(df, column_name) ==
    IF column_name \notin DOMAIN df.columns
    THEN Err([what |-> "Error extracting column", column |-> column_name])
    ELSE LET casted_column == CastF64(df.columns[column_name])
         IN  IF is_err(casted_column)
             THEN Err([what |-> "Error casting column", column |-> column_name])
             ELSE Ok(casted_column.value.values)

PoseColumns == <<"X", "Y", "Z", "A", "B", "C", "D">>

JointColumns == <<"J1", "J2", "J3", "J4", "J5", "J6">>

\* the columns a batch call extracts, in order
ExtractAll(df, names) == [n \in 1..Len(names) |-> extract_column_f64(df, names[n])]

\* the first failed extraction: each extraction is followed by `?`
FirstError(extracted) ==
    extracted[CHOOSE n \in 1..Len(extracted) :
                /\ is_err(extracted[n])
                /\ \A m \in 1..(n - 1) : ~is_err(extracted[m])]

\* mutant of ChunkedGet: the index one too small
ChunkedGet_off_by_one(chunked, i) == chunked[IF i > 1 THEN i - 1 ELSE i]

\* ChunkedArray::get(i), i counted from 1 here
ChunkedGet(chunked, i) == chunked[i]

\* the cells of row i of the extracted columns
CellsAt(extracted, i) ==
    [n \in 1..Len(extracted) |-> ChunkedGet(extracted[n].value, i)]

Nulls(width) == [n \in 1..width |-> None]

\* mutant of Push: a row of nulls is not pushed
Push_skipping_nulls(out, row) ==
    IF \A n \in 1..Len(row) : is_none(row[n])
    THEN out
    ELSE [n \in 1..Len(out) |-> Append(out[n], row[n])]

\* one value pushed on each output vector
Push(out, row) == [n \in 1..Len(out) |-> Append(out[n], row[n])]

\* DataFrame::new of the output vectors
DataFrameNew(names, out) ==
    [height |-> Len(out[1]),
     columns |-> [c \in {names[n] : n \in 1..Len(names)} |->
                    SeriesNew(out[CHOOSE n \in 1..Len(names) : names[n] = c])]]

\* mutant of BestSolution: the last solution in place of the first
BestSolution_last(solutions) ==
    IF Len(solutions) > 0 THEN Some(solutions[Len(solutions)]) ELSE None

\* the solution batch_inverse takes from a list: solutions.first()
BestSolution(solutions) ==
    IF Len(solutions) > 0 THEN Some(solutions[1]) ELSE None

\* batch_inverse, the body of the loop for one row
BatchInverseRow(self, cells, axis_config) ==
    IF \A n \in 1..7 : is_some(cells[n])
    THEN LET pose == << <<cells[1][1], cells[2][1], cells[3][1]>>,
                        <<cells[4][1], cells[5][1], cells[6][1], cells[7][1]>> >>
             solutions == inverse(self, pose, None, axis_config)
             best_solution == BestSolution(solutions)
         IN  IF is_some(best_solution)
             THEN [n \in 1..6 |-> Some(best_solution[1][n])]
             ELSE Nulls(6)
    ELSE Nulls(6)

RECURSIVE BatchInverseLoop(_, _, _, _, _, _)
\* batch_inverse: for i in 0..df.height()
BatchInverseLoop(self, extracted, axis_config, i, height, out) ==
    IF i > height THEN out
    ELSE BatchInverseLoop(self, extracted, axis_config, i + 1, height,
            Push(out, BatchInverseRow(self, CellsAt(extracted, i), axis_config)))

\* Robot::batch_inverse
batch_inverse(self, df, axis_config) ==
    LET extracted == ExtractAll(df, PoseColumns)
    IN  IF \E n \in 1..7 : is_err(extracted[n])
        THEN FirstError(extracted)
        ELSE Ok(DataFrameNew(JointColumns,
                BatchInverseLoop(self, extracted, axis_config, 1, df.height,
                                 [n \in 1..6 |-> << >>])))

\* mutant of BatchForwardRow: J6 not tested for null and read as 0 when missing
BatchForwardRow_partial(self, cells) ==
    IF \A n \in 1..5 : is_some(cells[n])
    THEN LET joints_array ==
                [n \in 1..6 |-> IF is_some(cells[n]) THEN cells[n][1] ELSE 0]
             result == forward(self, joints_array)
         IN  <<Some(result[1][1]), Some(result[1][2]), Some(result[1][3]),
               Some(result[2][1]), Some(result[2][2]), Some(result[2][3]),
               cells[6]>>
    ELSE Nulls(7)

\* batch_forward, the body of the loop for one row
BatchForwardRow(self, cells) ==
    IF \A n \in 1..6 : is_some(cells[n])
    THEN LET joints_array == [n \in 1..6 |-> cells[n][1]]
             result == forward(self, joints_array)
             translation == result[1]
             rotation == result[2]
         IN  <<Some(translation[1]), Some(translation[2]), Some(translation[3]),
               Some(rotation[1]), Some(rotation[2]), Some(rotation[3]),
               Some(rotation[4])>>
    ELSE Nulls(7)

RECURSIVE BatchForwardLoop(_, _, _, _, _)
\* batch_forward: for i in 0..df.height()
BatchForwardLoop(self, extracted, i, height, out) ==
    IF i > height THEN out
    ELSE BatchForwardLoop(self, extracted, i + 1, height,
            Push(out, BatchForwardRow(self, CellsAt(extracted, i))))

\* Robot::batch_forward
batch_forward(self, df) ==
    LET extracted == ExtractAll(df, JointColumns)
    IN  IF \E n \in 1..6 : is_err(extracted[n])
        THEN FirstError(extracted)
        ELSE Ok(DataFrameNew(PoseColumns,
                BatchForwardLoop(self, extracted, 1, df.height,
                                 [n \in 1..7 |-> << >>])))

(***************************************************************************)
(* Inputs                                                                  *)
(***************************************************************************)
BaseConfigs ==
    { BaseConfigNew(<<0, 0, 0>>, <<1, 0, 0, 0>>),
      BaseConfigNew(<<0, 0, 23>>, <<0, 1, 0, 0>>) }

ToolConfigs ==
    { ToolConfigNew(<<0, 0, 1>>, <<0, -2, 0, 0>>) }

AllBranches == BranchesA \o BranchesB \o BranchesD

BranchSet == {AllBranches[n] : n \in 1..Len(AllBranches)}

\* j with joint n moved by k whole turns
Shifted(j, n, k) == [j EXCEPT ![n] = @ + 36000 * k]

\* joint vectors handed to forward: on a branch, or a whole turn away from one
ForwardJoints ==
    BranchSet
      \cup {Shifted(j, n, k) : j \in {BranchesA[1], BranchesA[2], BranchesD[1]},
                               n \in {1, 4, 6}, k \in {-1, 1}}
      \cup { <<1000, 2000, 3000, 4000, 5000, 6000>> }

\* the pose, as the caller sees it, of a flange pose: position and (w, x, y, z)
WorldPose(self, flange) ==
    LET p == IsoMul(IsoMul(self._tool.robot.base, flange), self._tool.tool)
    IN  <<p.translation, <<p.rotation.w, p.rotation.i, p.rotation.j, p.rotation.k>>>>

Scaled(q, s) == <<q[1] * s, q[2] * s, q[3] * s, q[4] * s>>

\* poses handed to inverse: reachable ones, the same with the quaternion
\* negated or not normalised, and one out of reach
InversePoses(self) ==
    LET reach == {WorldPose(self, f) : f \in {PoseA, PoseB, PoseD}}
    IN  reach
          \cup {<<p[1], Scaled(p[2], -1)>> : p \in reach}
          \cup {<<p[1], Scaled(p[2], 2)>> : p \in reach}
          \cup { <<<<7, 7, 7>>, <<1, 0, 0, 0>>>> }

Seeds ==
    { None,
      Some(<<-10310, -8503, 1906, -7019, -3587, 18501>>),
      Some(<<20000, 0, 0, -20000, 0, 40000>>) }

AxisConfigs ==
    { None, Some(<<0, 0, 0, 5>>), Some(<<-2, -1, 2, 5>>), Some(<<0, 0, 0, 4>>),
      Some(<<1, 1, 1, 0>>) }

AngleSamples == {-13000, -9001, -9000, -1, 0, 9000, 9500}

\* joint vectors handed to axis_configuration
AxisJoints ==
    BranchSet
      \cup { <<-10310, -8503, 1906, -7019, -3587, 18501>>,
             <<-13369, -5737, -3313, -7800, 5453, -6613>> }
      \cup {[n \in JointIdx |-> IF n \in {1, 4, 6} THEN a ELSE b] :
                a \in AngleSamples, b \in AngleSamples}
      \cup {<<0, a, b, 0, c, 0>> :
                a \in {-1, 0}, b \in {-9001, -9000}, c \in {-1, 0}}

\* the most rows of a table handed to a batch call
MaxRows == 2

SeqsUpTo(S, n) == UNION {[1..m -> S] : m \in 0..n}

\* row with the cells at the positions in missing made null
WithNulls(row, missing) ==
    [n \in 1..Len(row) |-> IF n \in missing THEN None ELSE Some(row[n])]

PoseCells(pose) ==
    <<pose[1][1], pose[1][2], pose[1][3], pose[2][1], pose[2][2], pose[2][3], pose[2][4]>>

\* rows of a table of poses: complete ones and ones with missing cells
PoseRows(self) ==
    {WithNulls(PoseCells(WorldPose(self, f)), {}) : f \in {PoseA, PoseB, PoseD}}
      \cup {WithNulls(PoseCells(WorldPose(self, PoseA)), m) :
                m \in {{1}, {7}, 1..7}}

\* rows of a table of joints: complete ones and ones with missing cells
JointRows ==
    {WithNulls(j, {}) :
        j \in {BranchesA[1], BranchesD[1], Shifted(BranchesA[2], 6, 1)}}
      \cup {WithNulls(BranchesA[1], m) : m \in {{1}, {6}, 1..6}}

\* the table with the named columns and the given rows
Frame(names, rows) ==
    [height |-> Len(rows),
     columns |-> [c \in {names[n] : n \in 1..Len(names)} |->
        SeriesNew([i \in 1..Len(rows) |->
            rows[i][CHOOSE n \in 1..Len(names) : names[n] = c]])]]

Restrict(f, S) == [c \in S |-> f[c]]

\* df without the columns in drop and with the extra columns in add,
\* each holding the cells of the column named like
WithColumns(df, drop, add, like) ==
    [height |-> df.height,
     columns |-> [c \in (DOMAIN df.columns \ drop) \cup add |->
                    IF c \in add THEN df.columns[like] ELSE df.columns[c]]]

\* tables that lack required columns or carry other ones
ColumnVariants(df, names) ==
    {WithColumns(df, {names[n]}, {}, names[1]) : n \in 1..Len(names)}
      \cup { WithColumns(df, {names[2], names[Len(names)]}, {}, names[1]),
             WithColumns(df, {}, {"extra"}, names[1]),
             WithColumns(df, {}, {"x", "j1"}, names[2]),
             WithColumns(df, {"X", "J1"}, {"x", "j1"}, names[1]) }

\* a column of the given type with one cell per row
TypedColumn(dtype, cells) == [dtype |-> dtype, values |-> cells]

\* the texts "abc" and "1"
TextAbc == Text(<<97, 98, 99>>)

TextOne == Text(<<49>>)

\* tables with a required column that holds no numbers: text in every cell,
\* text in the first cell and a written number in the others, or lists (a
\* list cell stands for itself by its length)
NonNumericVariants(df, names) ==
    { [df EXCEPT !.columns[names[1]] =
            TypedColumn("str", [i \in 1..df.height |-> Some(TextAbc)])],
      [df EXCEPT !.columns[names[Len(names)]] =
            TypedColumn("str", [i \in 1..df.height |->
                                  IF i = 1 THEN Some(TextAbc) ELSE Some(TextOne)])],
      [df EXCEPT !.columns[names[2]] =
            TypedColumn("list", [i \in 1..df.height |-> Some(1)])] }

\* the rows of rows that lack no cell
Complete(rows) == {r \in rows : \A n \in 1..Len(r) : is_some(r[n])}

PoseFrames(self) ==
    {Frame(PoseColumns, rows) : rows \in SeqsUpTo(PoseRows(self), MaxRows)}
      \cup UNION {ColumnVariants(Frame(PoseColumns, rows), PoseColumns) :
                    rows \in SeqsUpTo(Complete(PoseRows(self)), MaxRows - 1)}
      \cup UNION {NonNumericVariants(Frame(PoseColumns, rows), PoseColumns) :
                    rows \in SeqsUpTo(Complete(PoseRows(self)), MaxRows) \ {<< >>}}

JointFrames ==
    {Frame(JointColumns, rows) : rows \in SeqsUpTo(JointRows, MaxRows)}
      \cup UNION {ColumnVariants(Frame(JointColumns, rows), JointColumns) :
                    rows \in SeqsUpTo(Complete(JointRows), MaxRows - 1)}
      \cup UNION {NonNumericVariants(Frame(JointColumns, rows), JointColumns) :
                    rows \in SeqsUpTo(Complete(JointRows), MaxRows) \ {<< >>}}

BatchAxisConfigs == {None, Some(<<0, 0, 0, 4>>)}


(***************************************************************************)
(* The state machine: a constructed Robot, called by a client              *)
(***************************************************************************)
Init ==
    /\ \E km \in KinematicModels, bc \in BaseConfigs, tc \in ToolConfigs :
          \E constructed \in {RobotNew(km, bc, tc)} :
              /\ constructed.tag = "Ok"
              /\ robot = constructed.value
    /\ pc = "ready"
    /\ op = "none"
    /\ args = << >>
    /\ ret = << >>

CallForward ==
    /\ pc = "ready"
    /\ \E joints \in ForwardJoints :
          /\ args' = [joints |-> joints]
          /\ ret' = forward(robot, joints)
    /\ op' = "forward"
    /\ pc' = "returned"
    /\ UNCHANGED robot

CallAxisConfiguration ==
    /\ pc = "ready"
    /\ \E joints \in AxisJoints :
          /\ args' = [joints |-> joints]
          /\ ret' = axis_configuration(joints)
    /\ op' = "axis_configuration"
    /\ pc' = "returned"
    /\ UNCHANGED robot

CallInverse ==
    /\ pc = "ready"
    /\ \E pose \in InversePoses(robot), current_joints \in Seeds,
          axis_config \in AxisConfigs :
          /\ args' = [pose |-> pose, current_joints |-> current_joints,
                      axis_configuration |-> axis_config]
          /\ ret' = inverse(robot, pose, current_joints, axis_config)
    /\ op' = "inverse"
    /\ pc' = "returned"
    /\ UNCHANGED robot

CallBatchInverse ==
    /\ pc = "ready"
    /\ \E df \in PoseFrames(robot), axis_config \in BatchAxisConfigs :
          /\ args' = [poses |-> df, axis_configuration |-> axis_config]
          /\ ret' = batch_inverse(robot, df, axis_config)
    /\ op' = "batch_inverse"
    /\ pc' = "returned"
    /\ UNCHANGED robot

CallBatchForward ==
    /\ pc = "ready"
    /\ \E df \in JointFrames :
          /\ args' = [joints |-> df]
          /\ ret' = batch_forward(robot, df)
    /\ op' = "batch_forward"
    /\ pc' = "returned"
    /\ UNCHANGED robot

\* the client takes the result; the Robot is unchanged and can be called again
Return ==
    /\ pc = "returned"
    /\ pc' = "ready"
    /\ op' = "none"
    /\ args' = << >>
    /\ ret' = << >>
    /\ UNCHANGED robot

Next ==
    \/ CallForward
    \/ CallAxisConfiguration
    \/ CallInverse
    \/ CallBatchInverse
    \/ CallBatchForward
    \/ Return

Spec == Init /\ [][Next]_vars

(***************************************************************************)
(* Properties                                                              *)
(***************************************************************************)
\* the solver's candidates of the call of inverse that has returned
CallCandidates == InverseCandidates(robot, args.pose, args.current_joints)

\* the candidates of that call for which the solver returned a marker
CallFlagged ==
    {n \in 1..Len(CallCandidates) :
        is_some(Tool_kinematic_singularity(robot._tool, CallCandidates[n]))}

\* the candidates of that call that are not flagged, in degrees, in the
\* solver's order
CallSurvivors ==
    LET keep == SelectSeq(CallCandidates,
                    LAMBDA x : is_none(Tool_kinematic_singularity(robot._tool, x)))
    IN  [n \in 1..Len(keep) |-> [m \in JointIdx |-> to_degrees(keep[n][m])]]

\* C1: inverse never returns the degree conversion of a candidate the solver
\* flagged as singular; when every candidate is flagged the result is empty.
C1_NoSingularSolution ==
    op = "inverse" =>
        /\ \A m \in 1..Len(ret) : \A n \in CallFlagged :
              ret[m] # [k \in JointIdx |-> to_degrees(CallCandidates[n][k])]
        /\ CallFlagged = 1..Len(CallCandidates) => ret = << >>

\* C1 witness: a call with flagged and unflagged candidates has returned
C1_Witness ==
    /\ op = "inverse"
    /\ CallFlagged # {}
    /\ Len(ret) >= 2
    /\ Len(ret) < Len(CallCandidates)

CfxMatches(sol) == axis_configuration(sol)[4] = args.axis_configuration[1][4]

\* C2: with a target configuration the result is the stable partition of the
\* surviving candidates: those whose cfx equals the target's first, the others
\* after, each group in the solver's order; nothing added, dropped or repeated.
C2_StablePartition ==
    (op = "inverse" /\ is_some(args.axis_configuration)) =>
        ret = SelectSeq(CallSurvivors, CfxMatches)
                \o SelectSeq(CallSurvivors, LAMBDA sol : ~CfxMatches(sol))

\* C2 witness: two matching solutions and one that does not match, which the
\* solver enumerated before a matching one
C2_Witness ==
    /\ op = "inverse"
    /\ is_some(args.axis_configuration)
    /\ Len(SelectSeq(CallSurvivors, CfxMatches)) >= 2
    /\ \E a, b \in 1..Len(CallSurvivors) :
          a < b /\ ~CfxMatches(CallSurvivors[a]) /\ CfxMatches(CallSurvivors[b])

\* floor(x / 90 degrees), by the definition of floor
Floor90(x) == CHOOSE k \in -40..40 : 9000 * k <= x /\ x < 9000 * (k + 1)

CallRotation == Tool_forward(robot._tool, JointsToRadians(args.joints)).rotation

\* C4 as stated: forward returns the quaternion ordered [x, y, z, w]
C4_Original ==
    op = "forward" =>
        ret[2] = <<CallRotation.i, CallRotation.j, CallRotation.k, CallRotation.w>>

\* C4 amended: forward returns the quaternion ordered [w, x, y, z], scalar part
\* first, which is the ordering in which inverse reads the quaternion of its
\* pose: read by inverse, the result of forward is the rotation it came from.
C4_ForwardQuatOrder ==
    op = "forward" =>
        /\ ret[2] = <<CallRotation.w, CallRotation.i, CallRotation.j, CallRotation.k>>
        /\ InverseQuat(ret[2]) = CallRotation

\* C4 witness: forward has returned a rotation whose scalar part is 0
C4_Witness ==
    /\ op = "forward"
    /\ CallRotation.w = 0
    /\ ret[2][1] = 0

\* a joint vector the arm is non-singular and well-conditioned at: it lies,
\* up to whole turns, on a branch of the solver that is not flagged
WellConditioned(self, joints) ==
    LET qs == JointsToRadians(joints)
    IN  /\ \E n \in 1..Len(self._tool.robot.robot) :
              SameJoints(qs, self._tool.robot.robot[n].joints)
        /\ is_none(Tool_kinematic_singularity(self._tool, qs))

\* equal up to whole turns, at the resolution of the model (0.01 degree)
PeriodicEqual(a, b) == \A n \in JointIdx : (a[n] - b[n]) % 36000 = 0

CallRequired == IF op = "batch_forward" THEN JointColumns ELSE PoseColumns

CallProduced == IF op = "batch_forward" THEN PoseColumns ELSE JointColumns

CallFrame == IF op = "batch_forward" THEN args.joints ELSE args.poses

IsBatch == op \in {"batch_forward", "batch_inverse"}

\* the batch call that has returned succeeded
BatchOk == IsBatch /\ ret.tag = "Ok"

\* the cells of row i of table df in the columns names
RowOf(df, names, i) == [n \in 1..Len(names) |-> df.columns[names[n]].values[i]]

AllNull(row) == \A n \in 1..Len(row) : is_none(row[n])

AllPresent(row) == \A n \in 1..Len(row) : is_some(row[n])

RequiredSet == {CallRequired[n] : n \in 1..Len(CallRequired)}

\* the required columns of the input table of a call that succeeded, with the
\* cells as the call read them: numbers or null
CallCells ==
    [height |-> CallFrame.height,
     columns |-> [c \in RequiredSet |->
                    SeriesNew(extract_column_f64(CallFrame, c).value)]]

\* C6: no output row of batch_forward or batch_inverse is partial (all cells
\* present or all null), and a row whose input lacks a required cell has all
\* its output cells null: 7 for batch_forward, 6 for batch_inverse.
C6_NoPartialRow ==
    BatchOk =>
        /\ Len(CallProduced) = IF op = "batch_forward" THEN 7 ELSE 6
        /\ DOMAIN ret.value.columns = {CallProduced[n] : n \in 1..Len(CallProduced)}
        /\ \A i \in 1..ret.value.height :
              LET out == RowOf(ret.value, CallProduced, i)
              IN  /\ AllNull(out) \/ AllPresent(out)
                  /\ ~AllPresent(RowOf(CallCells, CallRequired, i)) => AllNull(out)

\* C6 witness: batch_forward has returned a row of nulls for a row that lacks
\* one cell only, and a row of values for a complete row
C6_Witness ==
    /\ BatchOk
    /\ op = "batch_forward"
    /\ \E i, k \in 1..ret.value.height :
          /\ ~AllPresent(RowOf(CallCells, CallRequired, i))
          /\ ~AllNull(RowOf(CallCells, CallRequired, i))
          /\ AllNull(RowOf(ret.value, CallProduced, i))
          /\ AllPresent(RowOf(ret.value, CallProduced, k))

\* the batch call that has returned, made again with the table df
CallAgain(df) ==
    IF op = "batch_forward"
    THEN batch_forward(robot, df)
    ELSE batch_inverse(robot, df, args.axis_configuration)

\* table df with the required cells of row k replaced by the cells of row
ReplaceRow(df, names, k, row) ==
    [height |-> df.height,
     columns |-> [c \in DOMAIN df.columns |->
        IF \E n \in 1..Len(names) : names[n] = c
        THEN [df.columns[c] EXCEPT
                !.values[k] = row[CHOOSE n \in 1..Len(names) : names[n] = c]]
        ELSE df.columns[c]]]

\* the rows put in place of row k: nulls, and the last row of the input
ReplacementRows ==
    {Nulls(Len(CallRequired))}
      \cup {RowOf(CallFrame, CallRequired, i) : i \in {CallFrame.height} \ {0}}

\* C7: row independence: with the required cells of row k made null only the
\* outputs of row k become null, and with row k changed in any way every other
\* output row is unchanged, for every k.
C7_RowIndependence ==
    BatchOk =>
        \A k \in 1..CallFrame.height : \A row \in ReplacementRows :
            \A again \in {CallAgain(ReplaceRow(CallFrame, CallRequired, k, row))} :
                /\ again.tag = "Ok"
                /\ again.value.height = ret.value.height
                /\ \A i \in 1..ret.value.height :
                      i # k => RowOf(again.value, CallProduced, i)
                                 = RowOf(ret.value, CallProduced, i)
                /\ AllNull(row) => AllNull(RowOf(again.value, CallProduced, k))

\* C7 witness: a batch of two complete rows with values in both output rows
C7_Witness ==
    /\ BatchOk
    /\ CallFrame.height = 2
    /\ \A i \in 1..2 :
          /\ AllPresent(RowOf(CallCells, CallRequired, i))
          /\ AllPresent(RowOf(ret.value, CallProduced, i))
    /\ RowOf(ret.value, CallProduced, 1) # RowOf(ret.value, CallProduced, 2)

\* the values of a row of present cells
Values(row) == [n \in 1..Len(row) |-> row[n][1]]

PoseOfCells(v) == << <<v[1], v[2], v[3]>>, <<v[4], v[5], v[6], v[7]>> >>

\* the output row that belongs to an input row
RowResult(in) ==
    IF ~AllPresent(in) THEN {Nulls(Len(CallProduced))}
    ELSE IF op = "batch_forward"
    THEN LET r == forward(robot, Values(in))
         IN  {[n \in 1..7 |-> Some((r[1] \o r[2])[n])]}
    ELSE LET sols == inverse(robot, PoseOfCells(Values(in)), None,
                             args.axis_configuration)
         IN  IF sols = << >> THEN {Nulls(6)}
             ELSE {[n \in 1..6 |-> Some(sols[m][n])] : m \in 1..Len(sols)}

\* C8: the output table of a batch call that succeeds has as many rows as the
\* input table, every output column has that length, and output row i is a
\* result of input row i: results stand at their own row index, nulls too.
C8_RowCount ==
    BatchOk =>
        /\ ret.value.height = CallFrame.height
        /\ \A c \in DOMAIN ret.value.columns :
              Len(ret.value.columns[c].values) = CallFrame.height
        /\ \A i \in 1..CallFrame.height :
              RowOf(ret.value, CallProduced, i)
                  \in RowResult(RowOf(CallCells, CallRequired, i))

\* C8 witness: two rows, the first without result and the second with one
C8_Witness ==
    /\ BatchOk
    /\ ret.value.height = 2
    /\ AllNull(RowOf(ret.value, CallProduced, 1))
    /\ AllPresent(RowOf(ret.value, CallProduced, 2))

\* the list Robot.inverse returns for input row i of batch_inverse
RowSolutions(i) ==
    inverse(robot, PoseOfCells(Values(RowOf(CallCells, PoseColumns, i))), None,
            args.axis_configuration)

\* C9: for every complete row of batch_inverse the output row is the first
\* element of inverse(pose of the row, no seed, desired configuration), and
\* 6 nulls when that list is empty.
C9_FirstSolution ==
    (BatchOk /\ op = "batch_inverse") =>
        \A i \in 1..args.poses.height :
            AllPresent(RowOf(CallCells, PoseColumns, i)) =>
                \A out \in {RowOf(ret.value, JointColumns, i)} :
                \A solutions \in {RowSolutions(i)} :
                    IF solutions = << >>
                    THEN out = Nulls(6)
                    ELSE AllPresent(out) /\ Values(out) = solutions[1]

\* C9 witness: a row with several solutions, reordered by the ranking, and a
\* row whose pose has no surviving solution
C9_Witness ==
    /\ BatchOk
    /\ op = "batch_inverse"
    /\ args.poses.height = 2
    /\ AllPresent(RowOf(CallCells, PoseColumns, 1))
    /\ AllPresent(RowOf(CallCells, PoseColumns, 2))
    /\ Len(RowSolutions(1)) >= 2
    /\ is_some(args.axis_configuration)
    /\ RowSolutions(1) #
          inverse(robot, PoseOfCells(Values(RowOf(CallCells, PoseColumns, 1))),
                  None, None)
    /\ Values(RowOf(ret.value, JointColumns, 1)) = RowSolutions(1)[1]
    /\ RowSolutions(2) = << >>
    /\ AllNull(RowOf(ret.value, JointColumns, 2))

\* the input table with its required columns only
RequiredOnly(df) ==
    [height |-> df.height, columns |-> Restrict(df.columns, RequiredSet)]

\* C10: a batch call whose table lacks a required column (names matched
\* exactly, case-sensitively) fails with an error naming a missing column and
\* returns no table; other columns are ignored and do not change the result.
C10_MissingColumn ==
    IsBatch =>
        IF RequiredSet \subseteq DOMAIN CallFrame.columns
        THEN ret = CallAgain(RequiredOnly(CallFrame))
        ELSE /\ ret.tag = "Err"
             /\ ret.error.what = "Error extracting column"
             /\ ret.error.column \in RequiredSet \ DOMAIN CallFrame.columns

\* C10 witness: a table with column x but no column X, refused naming X
C10_Witness ==
    /\ op = "batch_inverse"
    /\ "x" \in DOMAIN args.poses.columns
    /\ "X" \notin DOMAIN args.poses.columns
    /\ args.poses.height > 0
    /\ ret.tag = "Err"
    /\ ret.error.column = "X"

\* a table with all required columns and another one has been handled
C10_ExtraColumnSeen ==
    /\ BatchOk
    /\ "extra" \in DOMAIN CallFrame.columns
    /\ ret.value.height > 0

\* the required columns of the input table that hold values that are no
\* numbers: text that does not parse as a number, or a nested type
NonNumericColumns ==
    {c \in RequiredSet \cap DOMAIN CallFrame.columns :
        \E i \in 1..CallFrame.height :
            \A cell \in {CallFrame.columns[c].values[i]} :
                /\ is_some(cell)
                /\ CASE CallFrame.columns[c].dtype = "f64" -> FALSE
                     [] CallFrame.columns[c].dtype = "str" -> is_none(ParseF64(cell[1]))
                     [] OTHER -> TRUE}

\* C11: a batch call whose table has all required columns, one of them with
\* values that are no numbers, fails as a whole: it returns an error and no
\* table, so no such cell is read as null and no row turned into a null row.
C11_NonNumericColumnFails ==
    (IsBatch /\ RequiredSet \subseteq DOMAIN CallFrame.columns
             /\ NonNumericColumns # {}) =>
        ret.tag = "Err"

\* a text column was read as nulls: the call succeeded and the row of the
\* text cell came out as a row of nulls
C11_TextAbsorbed ==
    /\ BatchOk
    /\ \E c \in NonNumericColumns : \E i \in 1..CallFrame.height :
          /\ CallFrame.columns[c].values[i] = Some(TextAbc)
          /\ AllNull(RowOf(ret.value, CallProduced, i))

\* a column of a nested type was refused
C11_NestedRefused ==
    /\ IsBatch
    /\ NonNumericColumns # {}
    /\ ret.tag = "Err"
    /\ ret.error.what = "Error casting column"

\* the errors a batch call returns for its table
ColumnErrors == {"Error extracting column", "Error casting column"}

\* C12: a geometry that is not valid is refused by the constructor with an
\* error, so the Robot of a call that has returned never has one; and no
\* call reports a geometry error: forward and inverse return values, and a
\* batch call that fails reports a column of its table.
C12_InvalidGeometryRefused ==
    pc = "returned" =>
        /\ ~ValidGeometry(robot._kinematic_model) =>
              is_err(RobotNew(robot._kinematic_model, robot.base_config,
                              robot.tool_config))
        /\ ValidGeometry(robot._kinematic_model)
        /\ (IsBatch /\ ret.tag = "Err") => ret.error.what \in ColumnErrors

\* a Robot of a geometry that is not valid has been constructed and called:
\* inverse of a pose returned the empty list, and no error
C12_InvalidRobotCalled ==
    /\ ~ValidGeometry(robot._kinematic_model)
    /\ op = "inverse"
    /\ ret = << >>

\* what holds of the calls: a batch call that fails reports a column of its
\* table, also for a Robot of a geometry that is not valid
C12_NoGeometryErrorAtCall ==
    (IsBatch /\ ret.tag = "Err") => ret.error.what \in ColumnErrors

\* C13: inverse called without a target configuration returns the degree
\* conversion of exactly the candidates the solver did not flag, in the order
\* in which the solver enumerated them.
C13_NoTargetKeepsOrder ==
    (op = "inverse" /\ is_none(args.axis_configuration)) => ret = CallSurvivors

\* C13 witness: a call without target whose flagged candidate stands between
\* two candidates that are returned
C13_Witness ==
    /\ op = "inverse"
    /\ is_none(args.axis_configuration)
    /\ Len(ret) >= 2
    /\ ret[1] # ret[2]
    /\ \E n \in CallFlagged : 1 < n /\ n < Len(CallCandidates)

\* the targets with the cfx of target t: cf1, cf4 and cf6 all 0, those of t,
\* and those of each solution of the call
SameCfxTargets(t) ==
    {<<c[1], c[2], c[3], t[4]>> :
        c \in {<<0, 0, 0>>, t}
                \cup {axis_configuration(CallSurvivors[n]) : n \in 1..Len(CallSurvivors)}}

\* C14: the ranking of inverse reads the target only through cfx: every
\* target with the same cfx gives the same list for the same pose and seed,
\* and a solution whose cfx equals the target's is scored as a match whatever
\* its cf1, cf4 and cf6.
C14_OnlyCfx ==
    (op = "inverse" /\ is_some(args.axis_configuration)) =>
        \A target \in {args.axis_configuration[1]} :
            /\ \A t \in SameCfxTargets(target) :
                  inverse(robot, args.pose, args.current_joints, Some(t)) = ret
            /\ \A n \in 1..Len(CallSurvivors) :
                  CfxMatches(CallSurvivors[n]) => Score(CallSurvivors[n], target)

\* C14 witness: a solution with the cfx of the target and another cf1 is
\* returned first though the solver enumerated it after one of another cfx,
\* and a target with the same cfx has exactly the fields of that solution
C14_Witness ==
    /\ op = "inverse"
    /\ is_some(args.axis_configuration)
    /\ Len(ret) >= 2
    /\ CfxMatches(ret[1])
    /\ axis_configuration(ret[1])[1] # args.axis_configuration[1][1]
    /\ ~CfxMatches(CallSurvivors[1])
    /\ axis_configuration(ret[1]) \in SameCfxTargets(args.axis_configuration[1])
    /\ Cardinality(SameCfxTargets(args.axis_configuration[1])) >= 3

====
